---- MODULE Spec2Model ----
(***************************************************************************)
(* A model of the mygpoclient library (libmygpo-rs): the natural-key       *)
(* equality / ordering / hashing of Device, Podcast and Suggestion, and    *)
(* the request shaping of AuthenticatedClient and DeviceClient against the *)
(* gpodder.net service.                                                    *)
(*                                                                         *)
(* Two specifications share the variables:                                 *)
(*   SpecCmp  draws pairs of records and applies eq / cmp / partial_cmp /  *)
(*            hash to them;                                                *)
(*   Spec     constructs one client and lets it perform the public         *)
(*            operations against the service.                              *)
(***************************************************************************)
EXTENDS Integers, Sequences, FiniteSets, TLC

VARIABLES
    pair,      \* SpecCmp: the two records under comparison, [kind, a, b]
    out,       \* SpecCmp: what eq / cmp / partial_cmp / hash returned
    cpc,       \* SpecCmp: "input" before the comparison, "done" after it
    client,    \* Spec: the client as constructed
    srv,       \* Spec: the service's state for the client's device
    call,      \* Spec: the most recent invocation, [op, args]
    net,       \* Spec: the requests the most recent invocation put on the wire
    resp,      \* Spec: what the HTTP capability gave back for the last request
    result     \* Spec: what the most recent invocation returned

cmpVars == <<pair, out, cpc>>
cliVars == <<client, srv, call, net, resp, result>>
vars == <<pair, out, cpc, client, srv, call, net, resp, result>>

(***************************************************************************)
(* Bounds of the model.                                                    *)
(***************************************************************************)
\* longest id / url (in bytes) that is drawn
MaxLen == 2
\* the bytes ids and urls are made of ('a', 'b')
Bytes == {97, 98}
\* longest subscription list a caller uploads
MaxList == 2
\* last timestamp the service issues
MaxClock == 2

(***************************************************************************)
(* Rust values.                                                            *)
(***************************************************************************)
\* Option<T>
None == <<>>
Some(x) == <<x>>

\* Result<T, E>
Ok(v) == [ok |-> TRUE, val |-> v]
Err(e) == [ok |-> FALSE, val |-> e]

\* String / Url values whose bytes matter: sequences of bytes
Strs == UNION {[1..n -> Bytes] : n \in 0..MaxLen}
UrlStrs == Strs \ {<<>>}

RECURSIVE StrCmp(_, _)
\* <str as Ord>::cmp: bytewise lexicographic
StrCmp(s, t) ==
    IF s = <<>> /\ t = <<>> THEN "Equal"
    ELSE IF s = <<>> THEN "Less"
    ELSE IF t = <<>> THEN "Greater"
    ELSE IF Head(s) < Head(t) THEN "Less"
    ELSE IF Head(s) > Head(t) THEN "Greater"
    ELSE StrCmp(Tail(s), Tail(t))

\* <str as Hash>::hash: the bytes, then the 0xff terminator
StrHash(s, state) == state \o s \o <<255>>

RECURSIVE Finish(_)
\* Hasher::finish over what has been written (64-bit in the program)
Finish(state) ==
    IF state = <<>> THEN 7
    ELSE (Finish(SubSeq(state, 1, Len(state) - 1)) * 31 + state[Len(state)]) % (2^16)

(***************************************************************************)
(* device.rs: Device                                                       *)
(***************************************************************************)
DeviceTypes == {"Desktop", "Laptop", "Mobile", "Server", "Other"}

\* the device records that are drawn: every id, two values of every other field
Devices ==
    [id : Strs, caption : {"gPodder on my Lappy", "unnamed"},
     device_type : {"Laptop", "Other"}, subscriptions : {27, 1}]

\* impl PartialEq for Device (mutant: structural equality)
DeviceEqAll(a, b) ==
    a.id = b.id /\ a.caption = b.caption /\ a.device_type = b.device_type
    /\ a.subscriptions = b.subscriptions

DeviceEq(a, b) == a.id = b.id

\* impl Ord for Device (mutant: ordered by the caption instead of the id)
DeviceCmpCaption(a, b) ==
    IF a.caption = b.caption THEN "Equal"
    ELSE IF a.caption = "gPodder on my Lappy" THEN "Less" ELSE "Greater"

DeviceCmp(a, b) == StrCmp(a.id, b.id)

DevicePartialCmp(a, b) == Some(DeviceCmp(a, b))

DeviceHash(a, state) == StrHash(a.id, state)

(***************************************************************************)
(* subscription.rs: Podcast                                                *)
(***************************************************************************)
\* the values the fields besides the feed url take: two of each
TextFields ==
    { [title |-> "Linux Geekdom", author |-> None, description |-> "Linux Geekdom"],
      [title |-> "Going Linux", author |-> Some("Larry"), description |-> "Going Linux"] }
CountFields ==
    { [subscribers |-> 0, subscribers_last_week |-> 0],
      [subscribers |-> 571, subscribers_last_week |-> 570] }
LinkFields ==
    { [logo_url |-> None, scaled_logo_url |-> None,
       website |-> <<97>>, mygpo_link |-> <<97, 97>>],
      [logo_url |-> Some(<<98>>), scaled_logo_url |-> Some(<<98, 97>>),
       website |-> <<98>>, mygpo_link |-> <<98, 98>>] }

MkPodcast(u, t, c, l) ==
    [url |-> u, title |-> t.title, author |-> t.author, description |-> t.description,
     subscribers |-> c.subscribers, subscribers_last_week |-> c.subscribers_last_week,
     logo_url |-> l.logo_url, scaled_logo_url |-> l.scaled_logo_url,
     website |-> Some(l.website), mygpo_link |-> l.mygpo_link]

Podcasts ==
    {MkPodcast(u, t, c, l) : u \in UrlStrs, t \in TextFields, c \in CountFields, l \in LinkFields}

PodcastEq(a, b) == a.url = b.url

PodcastCmp(a, b) == StrCmp(a.url, b.url)

PodcastPartialCmp(a, b) == Some(PodcastCmp(a, b))

PodcastHash(a, state) == StrHash(a.url, state)

(***************************************************************************)
(* suggestion.rs: Suggestion                                               *)
(***************************************************************************)
MkSuggestion(u, t, c, l) ==
    [website |-> l.website, mygpo_link |-> l.mygpo_link, description |-> t.description,
     subscribers |-> c.subscribers, title |-> t.title, url |-> u,
     subscribers_last_week |-> c.subscribers_last_week, logo_url |-> l.logo_url]

Suggestions ==
    {MkSuggestion(u, t, c, l) : u \in UrlStrs, t \in TextFields, c \in CountFields, l \in LinkFields}

SuggestionEq(a, b) == a.url = b.url

SuggestionCmp(a, b) == StrCmp(a.url, b.url)

SuggestionPartialCmp(a, b) == Some(SuggestionCmp(a, b))

SuggestionHash(a, state) == StrHash(a.url, state)

(***************************************************************************)
(* Text that is only copied (user names, device ids, url templates) is a   *)
(* sequence of chunks, and format! concatenates chunks.                    *)
(***************************************************************************)
\* a string literal or an argument that is copied as it is
Lit(s) == <<s>>

Digit == <<"0", "1", "2", "3", "4", "5", "6", "7", "8", "9">>

RECURSIVE to_string(_)
\* u8 / u64 ::to_string, and the decimal form serde_urlencoded gives an integer
to_string(n) == IF n < 10 THEN <<Digit[n + 1]>> ELSE to_string(n \div 10) \o <<Digit[(n % 10) + 1]>>

\* bool::to_string
BoolToString(b) == IF b THEN Lit("true") ELSE Lit("false")

(***************************************************************************)
(* client.rs                                                               *)
(***************************************************************************)
PACKAGE_NAME == Lit("CARGO_PKG_NAME")
PACKAGE_VERSION == Lit("CARGO_PKG_VERSION")

\* format!("{}/{}", PACKAGE_NAME, PACKAGE_VERSION)
UserAgent == PACKAGE_NAME \o Lit("/") \o PACKAGE_VERSION

\* AuthenticatedClient::new
AuthenticatedClientNew(username, password) ==
    [username |-> username, password |-> password]

\* DeviceClient::new
DeviceClientNew(username, password, device_id) ==
    [device_id |-> device_id,
     authenticated_client |-> AuthenticatedClientNew(username, password)]

\* A request as it leaves through RequestBuilder::send.  Every method below
\* gives the sequence of requests it sends.
Request(verb, url, auth, agent, query, json) ==
    [verb |-> verb, url |-> url, basic_auth |-> auth, user_agent |-> agent,
     query |-> query, json |-> json]

\* AuthenticatedClient::get_with_query (mutant: the pairs are sent last first)
AuthGetWithQueryReversed(self, url, query_parameters) ==
    << Request("GET", url, Some(<<self.username, Some(self.password)>>),
               Some(UserAgent),
               [i \in DOMAIN query_parameters |->
                    query_parameters[Len(query_parameters) + 1 - i]],
               None) >>

AuthGetWithQuery(self, url, query_parameters) ==
    << Request("GET", url, Some(<<self.username, Some(self.password)>>),
               Some(UserAgent), query_parameters, None) >>

\* AuthenticatedClient::get
AuthGet(self, url) == AuthGetWithQuery(self, url, <<>>)

\* AuthenticatedClient::put (mutant: basic_auth left out)
AuthPutNoAuth(self, url, json) ==
    << Request("PUT", url, None, Some(UserAgent), <<>>, Some(json)) >>

AuthPut(self, url, json) ==
    << Request("PUT", url, Some(<<self.username, Some(self.password)>>),
               Some(UserAgent), <<>>, Some(json)) >>

\* AuthenticatedClient::post (mutant: the password is written into the url)
AuthPostKeyInUrl(self, url, json) ==
    << Request("POST", url \o Lit("?password=") \o self.password,
               Some(<<self.username, Some(self.password)>>),
               Some(UserAgent), <<>>, Some(json)) >>

AuthPost(self, url, json) ==
    << Request("POST", url, Some(<<self.username, Some(self.password)>>),
               Some(UserAgent), <<>>, Some(json)) >>

\* DeviceClient::get
DevGet(self, url) == AuthGet(self.authenticated_client, url)

\* DeviceClient::get_with_query
DevGetWithQuery(self, url, query_parameters) ==
    AuthGetWithQuery(self.authenticated_client, url, query_parameters)

\* DeviceClient::put
DevPut(self, url, json) == AuthPut(self.authenticated_client, url, json)

\* DeviceClient::post
DevPost(self, url, json) == AuthPost(self.authenticated_client, url, json)

\* <DeviceClient as AsRef<AuthenticatedClient>>::as_ref
AsRef(self) == self.authenticated_client

(***************************************************************************)
(* What send() and Response::json give back.                               *)
(***************************************************************************)
\* a response body: the type of JSON document it holds, and the document
Body(shape, val) == [shape |-> shape, val |-> val]
NotJson == Body("html", <<>>)

\* Result<Response, reqwest::Error> of send()
SendOk(status, body) == [ok |-> TRUE, status |-> status, body |-> body]
SendErr == [ok |-> FALSE, status |-> 0, body |-> NotJson]

\* From<reqwest::Error> for Error, applied by the ? operator
ErrorFrom(e) == <<"Error", e>>

\* Response::json::<T>: the body must be a JSON document of type T
Json(response, T) ==
    IF response.body.shape = T THEN Ok(response.body.val) ELSE Err("decode")

\* Ok(send?.json()?) (mutant: a body that does not parse gives an empty value)
TryJsonOrDefault(r, T) ==
    IF ~r.ok THEN Err(ErrorFrom("transport"))
    ELSE IF ~Json(r, T).ok THEN Ok(<<>>)
    ELSE Ok(Json(r, T).val)

\* (mutant: the body that is parsed is the one another caller of the client
\* has received, when there is one)
TryJsonOfAnother(r, T) ==
    LET done == {t \in DOMAIN resp : cpc[t] = "done"}
        got == IF done = {} THEN r ELSE resp[CHOOSE t \in done : TRUE]
    IN  IF ~got.ok THEN Err(ErrorFrom("transport"))
        ELSE IF ~Json(got, T).ok THEN Err(ErrorFrom(Json(got, T).val))
        ELSE Ok(Json(got, T).val)

TryJson(r, T) ==
    IF ~r.ok THEN Err(ErrorFrom("transport"))
    ELSE IF ~Json(r, T).ok THEN Err(ErrorFrom(Json(r, T).val))
    ELSE Ok(Json(r, T).val)

\* send?; Ok(())
TryUnit(r) == IF ~r.ok THEN Err(ErrorFrom("transport")) ELSE Ok(<<>>)

(***************************************************************************)
(* device.rs: the operations.  Each gives the requests it sends (wire) and *)
(* what it returns (ret) when send() gives r.                              *)
(***************************************************************************)
LowercaseName ==
    [Desktop |-> "desktop", Laptop |-> "laptop", Mobile |-> "mobile",
     Server |-> "server", Other |-> "other"]

\* JSON values of a request body
JStr(s) == <<"string", s>>
JNull == <<"null">>

\* #[derive(Serialize)] for DeviceData (mutant: no skip_serializing_if)
SerializeDeviceDataNulls(input) ==
    [k \in {"caption", "type"} |->
        IF k = "caption"
        THEN IF input.caption = None THEN JNull ELSE JStr(input.caption[1])
        ELSE IF input.device_type = None THEN JNull
             ELSE JStr(LowercaseName[input.device_type[1]])]

SerializeDeviceData(input) ==
    [k \in {x \in {"caption", "type"} :
                \/ x = "caption" /\ input.caption # None
                \/ x = "type" /\ input.device_type # None} |->
        IF k = "caption" THEN JStr(input.caption[1])
        ELSE JStr(LowercaseName[input.device_type[1]])]

\* impl UpdateDeviceData for DeviceClient
UpdateDeviceData(self, caption, device_type, r) ==
    LET input == [caption |-> caption, device_type |-> device_type]
    IN  [wire |-> DevPost(self,
                          Lit("https://gpodder.net/api/2/devices/")
                              \o self.authenticated_client.username \o Lit("/")
                              \o self.device_id \o Lit(".json"),
                          SerializeDeviceData(input)),
         ret |-> TryUnit(r)]

\* impl ListDevices for AuthenticatedClient
ListDevices(self, r) ==
    [wire |-> AuthGet(self,
                      Lit("https://gpodder.net/api/2/devices/")
                          \o self.username \o Lit(".json")),
     ret |-> TryJson(r, "Vec<Device>")]

\* impl ListDevices for DeviceClient
DevListDevices(self, r) == ListDevices(AsRef(self), r)

\* impl GetDeviceUpdates for DeviceClient (mutant: user name and device id
\* change places in the url)
GetDeviceUpdatesSwapped(self, since, include_actions, r) ==
    [wire |-> DevGetWithQuery(self,
                              Lit("https://gpodder.net/api/2/updates/")
                                  \o self.device_id \o Lit("/")
                                  \o self.authenticated_client.username \o Lit(".json"),
                              << <<Lit("since"), to_string(since)>>,
                                 <<Lit("include_actions"), BoolToString(include_actions)>> >>),
     ret |-> TryJson(r, "DeviceUpdates")]

\* (mutant: include_actions is pushed before since)
GetDeviceUpdatesActionsFirst(self, since, include_actions, r) ==
    [wire |-> DevGetWithQuery(self,
                              Lit("https://gpodder.net/api/2/updates/")
                                  \o self.authenticated_client.username \o Lit("/")
                                  \o self.device_id \o Lit(".json"),
                              << <<Lit("include_actions"), BoolToString(include_actions)>>,
                                 <<Lit("since"), to_string(since)>> >>),
     ret |-> TryJson(r, "DeviceUpdates")]

\* (mutant: the client sends the timestamp of the last answer it got in
\* place of the caller's)
GetDeviceUpdatesRemembering(self, since, include_actions, r) ==
    LET last == IF result.ok /\ call.op \in {"get_device_updates",
                                              "upload_subscription_changes",
                                              "get_subscription_changes"}
                THEN result.val.timestamp ELSE since
    IN  [wire |-> DevGetWithQuery(self,
                                  Lit("https://gpodder.net/api/2/updates/")
                                      \o self.authenticated_client.username \o Lit("/")
                                      \o self.device_id \o Lit(".json"),
                                  << <<Lit("since"), to_string(last)>>,
                                     <<Lit("include_actions"), BoolToString(include_actions)>> >>),
         ret |-> TryJson(r, "DeviceUpdates")]

GetDeviceUpdates(self, since, include_actions, r) ==
    LET query_parameter_since == <<Lit("since"), to_string(since)>>
        query_parameter_include_actions ==
            <<Lit("include_actions"), BoolToString(include_actions)>>
        query_parameters ==
            Append(Append(<<>>, query_parameter_since), query_parameter_include_actions)
    IN  [wire |-> DevGetWithQuery(self,
                                  Lit("https://gpodder.net/api/2/updates/")
                                      \o self.authenticated_client.username \o Lit("/")
                                      \o self.device_id \o Lit(".json"),
                                  query_parameters),
         ret |-> TryJson(r, "DeviceUpdates")]

(***************************************************************************)
(* subscription.rs: the operations                                         *)
(***************************************************************************)
\* impl GetAllSubscriptions for AuthenticatedClient
GetAllSubscriptions(self, r) ==
    [wire |-> AuthGet(self,
                      Lit("https://gpodder.net/subscriptions/")
                          \o self.username \o Lit(".json")),
     ret |-> TryJson(r, "Vec<Podcast>")]

\* impl GetAllSubscriptions for DeviceClient (mutant: the list of the device
\* is asked for)
DevGetAllSubscriptionsOfDevice(self, r) ==
    [wire |-> DevGet(self,
                     Lit("https://gpodder.net/subscriptions/")
                         \o self.authenticated_client.username \o Lit("/")
                         \o self.device_id \o Lit(".json")),
     ret |-> TryJson(r, "Vec<Podcast>")]

DevGetAllSubscriptions(self, r) == GetAllSubscriptions(AsRef(self), r)

\* SubscriptionsOfDevice::get_subscriptions_of_device
GetSubscriptionsOfDevice(self, r) ==
    [wire |-> DevGet(self,
                     Lit("https://gpodder.net/subscriptions/")
                         \o self.authenticated_client.username \o Lit("/")
                         \o self.device_id \o Lit(".json")),
     ret |-> TryJson(r, "Vec<Url>")]

\* SubscriptionsOfDevice::upload_subscriptions_of_device (mutant: a failed
\* send is tried once more)
UploadSubscriptionsOfDeviceRetry(self, subscriptions, r) ==
    LET req == DevPut(self,
                      Lit("https://gpodder.net/subscriptions/")
                          \o self.authenticated_client.username \o Lit("/")
                          \o self.device_id \o Lit(".json"),
                      subscriptions)
    IN  [wire |-> IF r.ok THEN req ELSE req \o req, ret |-> TryUnit(r)]

UploadSubscriptionsOfDevice(self, subscriptions, r) ==
    [wire |-> DevPut(self,
                     Lit("https://gpodder.net/subscriptions/")
                         \o self.authenticated_client.username \o Lit("/")
                         \o self.device_id \o Lit(".json"),
                     subscriptions),
     ret |-> TryUnit(r)]

\* SubscriptionChanges::upload_subscription_changes (mutant: the url of the
\* full-list endpoint)
UploadSubscriptionChangesSimplePath(self, add, remove, r) ==
    [wire |-> DevPost(self,
                      Lit("https://gpodder.net/subscriptions/")
                          \o self.authenticated_client.username \o Lit("/")
                          \o self.device_id \o Lit(".json"),
                      [add |-> add, remove |-> remove]),
     ret |-> TryJson(r, "UploadSubscriptionChangesResponse")]

\* (mutant: the two lists change places in the request body)
UploadSubscriptionChangesCrossed(self, add, remove, r) ==
    LET input == [add |-> remove, remove |-> add]
    IN  [wire |-> DevPost(self,
                          Lit("https://gpodder.net/api/2/subscriptions/")
                              \o self.authenticated_client.username \o Lit("/")
                              \o self.device_id \o Lit(".json"),
                          input),
         ret |-> TryJson(r, "UploadSubscriptionChangesResponse")]

UploadSubscriptionChanges(self, add, remove, r) ==
    LET input == [add |-> add, remove |-> remove]
    IN  [wire |-> DevPost(self,
                          Lit("https://gpodder.net/api/2/subscriptions/")
                              \o self.authenticated_client.username \o Lit("/")
                              \o self.device_id \o Lit(".json"),
                          input),
         ret |-> TryJson(r, "UploadSubscriptionChangesResponse")]

\* SubscriptionChanges::get_subscription_changes (mutant: asks for the
\* changes after the timestamp, not since it)
GetSubscriptionChangesAfter(self, timestamp, r) ==
    [wire |-> DevGetWithQuery(self,
                              Lit("https://gpodder.net/api/2/subscriptions/")
                                  \o self.authenticated_client.username \o Lit("/")
                                  \o self.device_id \o Lit(".json"),
                              << <<Lit("since"), to_string(timestamp + 1)>> >>),
     ret |-> TryJson(r, "GetSubscriptionChangesResponse")]

GetSubscriptionChanges(self, timestamp, r) ==
    [wire |-> DevGetWithQuery(self,
                              Lit("https://gpodder.net/api/2/subscriptions/")
                                  \o self.authenticated_client.username \o Lit("/")
                                  \o self.device_id \o Lit(".json"),
                              << <<Lit("since"), to_string(timestamp)>> >>),
     ret |-> TryJson(r, "GetSubscriptionChangesResponse")]

(***************************************************************************)
(* suggestion.rs: the operation                                            *)
(***************************************************************************)
\* impl RetrieveSuggestedPodcasts for AuthenticatedClient (mutant: the client
\* keeps the first suggestion only)
RetrieveSuggestedPodcastsFirstOnly(self, max_results, r) ==
    LET got == TryJson(r, "Vec<Suggestion>")
    IN  [wire |-> AuthGet(self,
                          Lit("https://gpodder.net/suggestions/")
                              \o to_string(max_results) \o Lit(".json")),
         ret |-> IF got.ok /\ Len(got.val) > 1 THEN Ok(SubSeq(got.val, 1, 1)) ELSE got]

RetrieveSuggestedPodcasts(self, max_results, r) ==
    [wire |-> AuthGet(self,
                      Lit("https://gpodder.net/suggestions/")
                          \o to_string(max_results) \o Lit(".json")),
     ret |-> TryJson(r, "Vec<Suggestion>")]

\* impl RetrieveSuggestedPodcasts for DeviceClient
DevRetrieveSuggestedPodcasts(self, max_results, r) ==
    RetrieveSuggestedPodcasts(AsRef(self), max_results, r)

(***************************************************************************)
(* The records on the wire (#[derive(Serialize, Deserialize)]) and as text *)
(* (impl Display).  A JSON object is a function from its keys to values.   *)
(***************************************************************************)
JNum(n) == <<"number", n>>

IsJStr(v) == v[1] = "string"
IsJNull(v) == v[1] = "null"
\* a JSON number that fits u16
IsJU16(v) == v[1] = "number" /\ v[2] \in 0..(2^16 - 1)

\* Url::as_str, by which a Url is serialized: the text the Url holds
UrlAsStr(u) == u

\* Url::parse, by which a Url is deserialized: the empty text is no url
UrlParse(text) == IF text = <<>> THEN Err("decode") ELSE Ok(text)

\* Option<T> with T serialized by `one`
SerializeOption(o, one) == IF o = None THEN JNull ELSE one

\* a JSON string that is a url
IsJUrl(v) == IsJStr(v) /\ UrlParse(v[2]).ok

\* the key is missing or null, or satisfies `good`: an Option<T> can be read
Optional(j, k, good) == k \notin DOMAIN j \/ IsJNull(j[k]) \/ good

\* Option<String> / Option<Url> read from key k
DeserializeOption(j, k) ==
    IF k \notin DOMAIN j \/ IsJNull(j[k]) THEN None ELSE Some(j[k][2])

\* the variant serde reads from a lowercase name
VariantOf(name) == CHOOSE v \in DeviceTypes : LowercaseName[v] = name

\* #[derive(Serialize)] for Device (mutant: the type is written with the
\* name of the variant, as Debug gives it)
SerializeDeviceDebugType(d) ==
    [k \in {"id", "caption", "type", "subscriptions"} |->
        CASE k = "id" -> JStr(d.id)
          [] k = "caption" -> JStr(d.caption)
          [] k = "type" -> JStr(d.device_type)
          [] k = "subscriptions" -> JNum(d.subscriptions)]

SerializeDevice(d) ==
    [k \in {"id", "caption", "type", "subscriptions"} |->
        CASE k = "id" -> JStr(d.id)
          [] k = "caption" -> JStr(d.caption)
          [] k = "type" -> JStr(LowercaseName[d.device_type])
          [] k = "subscriptions" -> JNum(d.subscriptions)]

\* #[derive(Deserialize)] for Device
DeserializeDevice(j) ==
    IF /\ {"id", "caption", "type", "subscriptions"} \subseteq DOMAIN j
       /\ IsJStr(j["id"]) /\ IsJStr(j["caption"])
       /\ IsJStr(j["type"])
       /\ \E v \in DeviceTypes : LowercaseName[v] = j["type"][2]
       /\ IsJU16(j["subscriptions"])
    THEN Ok([id |-> j["id"][2], caption |-> j["caption"][2],
             device_type |-> VariantOf(j["type"][2]),
             subscriptions |-> j["subscriptions"][2]])
    ELSE Err("decode")

PodcastKeys ==
    {"url", "title", "author", "description", "subscribers", "subscribers_last_week",
     "logo_url", "scaled_logo_url", "website", "mygpo_link"}

\* #[derive(Serialize)] for Podcast
SerializePodcast(p) ==
    [k \in PodcastKeys |->
        CASE k = "url" -> JStr(UrlAsStr(p.url))
          [] k = "title" -> JStr(p.title)
          [] k = "author" -> SerializeOption(p.author, JStr(p.author[1]))
          [] k = "description" -> JStr(p.description)
          [] k = "subscribers" -> JNum(p.subscribers)
          [] k = "subscribers_last_week" -> JNum(p.subscribers_last_week)
          [] k = "logo_url" -> SerializeOption(p.logo_url, JStr(UrlAsStr(p.logo_url[1])))
          [] k = "scaled_logo_url" ->
                SerializeOption(p.scaled_logo_url, JStr(UrlAsStr(p.scaled_logo_url[1])))
          [] k = "website" -> SerializeOption(p.website, JStr(UrlAsStr(p.website[1])))
          [] k = "mygpo_link" -> JStr(UrlAsStr(p.mygpo_link))]

\* #[derive(Deserialize)] for Podcast
DeserializePodcast(j) ==
    IF /\ {"url", "title", "description", "subscribers", "subscribers_last_week",
           "mygpo_link"} \subseteq DOMAIN j
       /\ IsJUrl(j["url"]) /\ IsJStr(j["title"]) /\ IsJStr(j["description"])
       /\ IsJU16(j["subscribers"]) /\ IsJU16(j["subscribers_last_week"])
       /\ IsJUrl(j["mygpo_link"])
       /\ Optional(j, "author", IsJStr(j["author"]))
       /\ Optional(j, "logo_url", IsJUrl(j["logo_url"]))
       /\ Optional(j, "scaled_logo_url", IsJUrl(j["scaled_logo_url"]))
       /\ Optional(j, "website", IsJUrl(j["website"]))
    THEN Ok([url |-> UrlParse(j["url"][2]).val, title |-> j["title"][2],
             author |-> DeserializeOption(j, "author"),
             description |-> j["description"][2],
             subscribers |-> j["subscribers"][2],
             subscribers_last_week |-> j["subscribers_last_week"][2],
             logo_url |-> DeserializeOption(j, "logo_url"),
             scaled_logo_url |-> DeserializeOption(j, "scaled_logo_url"),
             website |-> DeserializeOption(j, "website"),
             mygpo_link |-> UrlParse(j["mygpo_link"][2]).val])
    ELSE Err("decode")

SuggestionKeys ==
    {"website", "mygpo_link", "description", "subscribers", "title", "url",
     "subscribers_last_week", "logo_url"}

\* #[derive(Serialize)] for Suggestion
SerializeSuggestion(g) ==
    [k \in SuggestionKeys |->
        CASE k = "website" -> JStr(UrlAsStr(g.website))
          [] k = "mygpo_link" -> JStr(UrlAsStr(g.mygpo_link))
          [] k = "description" -> JStr(g.description)
          [] k = "subscribers" -> JNum(g.subscribers)
          [] k = "title" -> JStr(g.title)
          [] k = "url" -> JStr(UrlAsStr(g.url))
          [] k = "subscribers_last_week" -> JNum(g.subscribers_last_week)
          [] k = "logo_url" -> SerializeOption(g.logo_url, JStr(UrlAsStr(g.logo_url[1])))]

\* #[derive(Deserialize)] for Suggestion
DeserializeSuggestion(j) ==
    IF /\ (SuggestionKeys \ {"logo_url"}) \subseteq DOMAIN j
       /\ IsJUrl(j["website"]) /\ IsJUrl(j["mygpo_link"]) /\ IsJUrl(j["url"])
       /\ IsJStr(j["description"]) /\ IsJStr(j["title"])
       /\ IsJU16(j["subscribers"]) /\ IsJU16(j["subscribers_last_week"])
       /\ Optional(j, "logo_url", IsJUrl(j["logo_url"]))
    THEN Ok([website |-> UrlParse(j["website"][2]).val,
             mygpo_link |-> UrlParse(j["mygpo_link"][2]).val,
             description |-> j["description"][2],
             subscribers |-> j["subscribers"][2],
             title |-> j["title"][2],
             url |-> UrlParse(j["url"][2]).val,
             subscribers_last_week |-> j["subscribers_last_week"][2],
             logo_url |-> DeserializeOption(j, "logo_url")])
    ELSE Err("decode")

\* impl Display for DeviceType: the Debug text, which is the variant's name
DisplayDeviceType(t) == Lit(t)

\* impl Display for Device (mutant: the type as serde names it)
DisplayDeviceSerdeName(d) ==
    Lit(LowercaseName[d.device_type]) \o Lit(" ") \o Lit(d.caption)
        \o Lit(" (id=") \o Lit(d.id) \o Lit(")")

DisplayDevice(d) ==
    DisplayDeviceType(d.device_type) \o Lit(" ") \o Lit(d.caption)
        \o Lit(" (id=") \o Lit(d.id) \o Lit(")")

\* impl Display for Podcast
DisplayPodcast(p) ==
    Lit(p.title) \o Lit(": ") \o Lit(p.description) \o Lit(" <")
        \o Lit(UrlAsStr(p.url)) \o Lit(">")

\* impl Display for Suggestion
DisplaySuggestion(g) ==
    Lit(g.title) \o Lit(": ") \o Lit(g.description) \o Lit(" <")
        \o Lit(UrlAsStr(g.url)) \o Lit(">")

(***************************************************************************)
(* The gpodder.net service, as far as one account and one device go.       *)
(***************************************************************************)
\* the one account the service knows
Account == [username |-> Lit("alice"), password |-> Lit("secret")]

\* the feed urls callers and the service deal in
FeedUrls == {<<b>> : b \in Bytes}

Range(q) == {q[i] : i \in DOMAIN q}

\* the orders in which the service may list a set
Orderings(S) == {q \in [1..Cardinality(S) -> S] : Range(q) = S}

\* the sequences over S of at most n elements
SeqsUpTo(S, n) == UNION {[1..k -> S] : k \in 0..n}

NoChange == [ts |-> 0, act |-> "none"]

\* the service's record of a feed
PodcastOf(u) ==
    [url |-> u, title |-> "Going Linux", author |-> None, description |-> "Going Linux",
     subscribers |-> 571, subscribers_last_week |-> 570, logo_url |-> None,
     scaled_logo_url |-> None, website |-> None, mygpo_link |-> <<98, 98>>]

SuggestionPool ==
    << MkSuggestion(<<97>>, [title |-> "Going Linux", description |-> "Going Linux"],
                    [subscribers |-> 571, subscribers_last_week |-> 570],
                    [website |-> <<97>>, mygpo_link |-> <<97, 97>>, logo_url |-> None]),
       MkSuggestion(<<98>>, [title |-> "Linux Geekdom", description |-> "Linux Geekdom"],
                    [subscribers |-> 0, subscribers_last_week |-> 0],
                    [website |-> <<98>>, mygpo_link |-> <<98, 98>>, logo_url |-> Some(<<98>>)]) >>

SampleDevices ==
    << [id |-> <<97>>, caption |-> "gPodder on my Lappy", device_type |-> "Laptop",
        subscriptions |-> 27] >>

\* the service accepts the credentials of the request
Authorized(req) ==
    req.basic_auth = Some(<<Account.username, Some(Account.password)>>)

\* a delta naming one url on both sides is refused
BadDelta(op, req) ==
    /\ op = "upload_subscription_changes"
    /\ Range(req.json[1].add) \cap Range(req.json[1].remove) # {}

RECURSIVE ParseDecimal(_)
\* the number a decimal query value stands for
ParseDecimal(chunks) ==
    IF chunks = <<>> THEN 0
    ELSE ParseDecimal(SubSeq(chunks, 1, Len(chunks) - 1)) * 10
         + (CHOOSE d \in 0..9 : Digit[d + 1] = chunks[Len(chunks)])

\* the `since` parameter of the request (0 when there is none)
SinceOf(req) ==
    LET at == {i \in DOMAIN req.query : req.query[i][1] = Lit("since")}
    IN  IF at = {} THEN 0 ELSE ParseDecimal(req.query[CHOOSE i \in at : TRUE][2])

\* the number in the path /suggestions/{number}.json of the request
MaxResultsOf(req) == ParseDecimal(SubSeq(req.url, 2, Len(req.url) - 1))

\* the feeds changed to `act` at or after `since`
ChangedSince(s, act, since) ==
    {u \in FeedUrls : s.changed[u].act = act /\ s.changed[u].ts >= since}

\* the service's state after it has accepted the request: `changed` is the
\* latest change of each feed, `prior` the way the feed was changed before
\* that (every accepted upload gets a later timestamp than the one before)
Accept(s, op, req) ==
    IF op = "upload_subscriptions_of_device"
    THEN LET new == Range(req.json[1])
             touched == (new \ s.subs) \cup (s.subs \ new)
         IN  [subs |-> new, clock |-> s.clock + 1,
              changed |-> [u \in FeedUrls |->
                  IF u \in new \ s.subs THEN [ts |-> s.clock + 1, act |-> "add"]
                  ELSE IF u \in s.subs \ new THEN [ts |-> s.clock + 1, act |-> "remove"]
                  ELSE s.changed[u]],
              prior |-> [u \in FeedUrls |->
                  IF u \in touched THEN s.changed[u].act ELSE s.prior[u]]]
    ELSE IF op = "upload_subscription_changes"
    THEN LET add == Range(req.json[1].add)
             rem == Range(req.json[1].remove)
         IN  [subs |-> (s.subs \cup add) \ rem, clock |-> s.clock + 1,
              changed |-> [u \in FeedUrls |->
                  IF u \in add THEN [ts |-> s.clock + 1, act |-> "add"]
                  ELSE IF u \in rem THEN [ts |-> s.clock + 1, act |-> "remove"]
                  ELSE s.changed[u]],
              prior |-> [u \in FeedUrls |->
                  IF u \in add \cup rem THEN s.changed[u].act ELSE s.prior[u]]]
    ELSE s

\* the bodies the service may send with 200 OK, from the state s it is in
\* after accepting the request
OkBodies(s, op, req) ==
    CASE op = "list_devices" ->
            {Body("Vec<Device>", SubSeq(SampleDevices, 1, k)) : k \in 0..Len(SampleDevices)}
      [] op = "get_device_updates" ->
            {Body("DeviceUpdates",
                  [add |-> [i \in DOMAIN a |-> PodcastOf(a[i])], rem |-> r,
                   updates |-> <<>>, timestamp |-> s.clock]) :
                a \in Orderings(ChangedSince(s, "add", SinceOf(req))),
                r \in Orderings(ChangedSince(s, "remove", SinceOf(req)))}
      [] op = "get_all_subscriptions" ->
            {Body("Vec<Podcast>", [i \in DOMAIN q |-> PodcastOf(q[i])]) :
                q \in Orderings(s.subs)}
      [] op = "get_subscriptions_of_device" ->
            {Body("Vec<Url>", q) : q \in Orderings(s.subs)}
      [] op = "upload_subscription_changes" ->
            {Body("UploadSubscriptionChangesResponse",
                  [timestamp |-> s.clock, update_urls |-> <<>>])}
      [] op = "get_subscription_changes" ->
            {Body("GetSubscriptionChangesResponse",
                  [timestamp |-> s.clock, add |-> a, remove |-> r]) :
                a \in Orderings(ChangedSince(s, "add", SinceOf(req))),
                r \in Orderings(ChangedSince(s, "remove", SinceOf(req)))}
      [] op = "retrieve_suggested_podcasts" ->
            {Body("Vec<Suggestion>", SubSeq(SuggestionPool, 1, k)) :
                k \in {n \in 0..Len(SuggestionPool) : n <= MaxResultsOf(req)}}
      [] OTHER -> {Body("empty", <<>>)}

\* what send() may give for the requests `wire` of operation op: a transport
\* error, or the service's answer to the request
Replies(s, op, wire) ==
    {SendErr} \cup
    (IF wire = <<>> THEN {}
     ELSE LET req == wire[Len(wire)]
          IN  IF ~Authorized(req) THEN {SendOk(401, NotJson)}
              ELSE IF BadDelta(op, req) THEN {SendOk(400, NotJson)}
              ELSE {SendOk(503, NotJson), SendOk(200, Body("unexpected", <<>>))}
                   \cup {SendOk(200, b) : b \in OkBodies(Accept(s, op, req), op, req)})

\* the service's state after it has answered r
ServiceAfter(s, op, wire, r) ==
    IF r.ok /\ r.status = 200 THEN Accept(s, op, wire[Len(wire)]) ELSE s

(***************************************************************************)
(* Spec: a client is constructed, then public operations are invoked on it *)
(***************************************************************************)
Usernames == {Lit("alice"), Lit("bob")}
Passwords == {Lit("secret"), Lit("wrong")}
DeviceIds == {Lit("dev1"), Lit("dev2")}

NoOut == [eq |-> FALSE, cmp |-> "none", pcmp |-> None, ha |-> 0, hb |-> 0]

\* the comparison part of the state is not touched by Spec
IdleCmp ==
    /\ pair = [kind |-> "none"]
    /\ out = NoOut
    /\ cpc = "idle"

Init ==
    /\ \/ \E u \in Usernames, p \in Passwords :
            client = [kind |-> "AuthenticatedClient", me |-> AuthenticatedClientNew(u, p)]
       \/ \E u \in Usernames, p \in Passwords, d \in DeviceIds :
            client = [kind |-> "DeviceClient", me |-> DeviceClientNew(u, p, d)]
    /\ \E subs \in {{}, {<<97>>}} :
            srv = [subs |-> subs, clock |-> 0, changed |-> [u \in FeedUrls |-> NoChange],
                   prior |-> [u \in FeedUrls |-> "none"]]
    /\ call = [op |-> "none", args |-> <<>>]
    /\ net = <<>>
    /\ resp = SendErr
    /\ result = Ok("none")
    /\ IdleCmp

\* One invocation of the public operation op with arguments args, where
\* run[r] is what the operation sends and returns when send() gives r.
Invoke(op, args, run) ==
    /\ op \in {"upload_subscriptions_of_device", "upload_subscription_changes"}
            => srv.clock < MaxClock
    /\ \E r \in DOMAIN run :
        /\ call' = [op |-> op, args |-> args]
        /\ net' = run[r].wire
        /\ resp' = r
        /\ result' = run[r].ret
        /\ srv' = ServiceAfter(srv, op, run[r].wire, r)
    /\ UNCHANGED <<client, cmpVars>>

IsDev == client.kind = "DeviceClient"
IsAuth == client.kind = "AuthenticatedClient"

CallListDevices ==
    \/ /\ IsAuth
       /\ LET run == [r \in Replies(srv, "list_devices", ListDevices(client.me, SendErr).wire) |->
                         ListDevices(client.me, r)]
          IN  Invoke("list_devices", <<>>, run)
    \/ /\ IsDev
       /\ LET run == [r \in Replies(srv, "list_devices", DevListDevices(client.me, SendErr).wire) |->
                         DevListDevices(client.me, r)]
          IN  Invoke("list_devices", <<>>, run)

CallUpdateDeviceData ==
    /\ IsDev
    /\ \E caption \in {None, Some("My Phone")}, device_type \in {None, Some("Mobile")} :
        LET run == [r \in Replies(srv, "update_device_data", UpdateDeviceData(client.me, caption, device_type, SendErr).wire) |->
                       UpdateDeviceData(client.me, caption, device_type, r)]
        IN  Invoke("update_device_data", <<caption, device_type>>, run)

CallGetDeviceUpdates ==
    /\ IsDev
    /\ \E since \in {0, 86400}, include_actions \in BOOLEAN :
        LET run == [r \in Replies(srv, "get_device_updates", GetDeviceUpdates(client.me, since, include_actions, SendErr).wire) |->
                       GetDeviceUpdates(client.me, since, include_actions, r)]
        IN  Invoke("get_device_updates", <<since, include_actions>>, run)

CallGetAllSubscriptions ==
    \/ /\ IsAuth
       /\ LET run == [r \in Replies(srv, "get_all_subscriptions", GetAllSubscriptions(client.me, SendErr).wire) |->
                         GetAllSubscriptions(client.me, r)]
          IN  Invoke("get_all_subscriptions", <<>>, run)
    \/ /\ IsDev
       /\ LET run == [r \in Replies(srv, "get_all_subscriptions", DevGetAllSubscriptions(client.me, SendErr).wire) |->
                         DevGetAllSubscriptions(client.me, r)]
          IN  Invoke("get_all_subscriptions", <<>>, run)

CallGetSubscriptionsOfDevice ==
    /\ IsDev
    /\ LET run == [r \in Replies(srv, "get_subscriptions_of_device", GetSubscriptionsOfDevice(client.me, SendErr).wire) |->
                      GetSubscriptionsOfDevice(client.me, r)]
       IN  Invoke("get_subscriptions_of_device", <<>>, run)

CallUploadSubscriptionsOfDevice ==
    /\ IsDev
    /\ \E subscriptions \in {q \in SeqsUpTo(FeedUrls, MaxList) : Len(q) = Cardinality(Range(q))} :
        LET run == [r \in Replies(srv, "upload_subscriptions_of_device", UploadSubscriptionsOfDevice(client.me, subscriptions, SendErr).wire) |->
                       UploadSubscriptionsOfDevice(client.me, subscriptions, r)]
        IN  Invoke("upload_subscriptions_of_device", <<subscriptions>>, run)

CallUploadSubscriptionChanges ==
    /\ IsDev
    /\ \E add \in SeqsUpTo(FeedUrls, 1), remove \in SeqsUpTo(FeedUrls, 1) :
        LET run == [r \in Replies(srv, "upload_subscription_changes", UploadSubscriptionChanges(client.me, add, remove, SendErr).wire) |->
                       UploadSubscriptionChanges(client.me, add, remove, r)]
        IN  Invoke("upload_subscription_changes", <<add, remove>>, run)

CallGetSubscriptionChanges ==
    /\ IsDev
    /\ \E timestamp \in (0..MaxClock) \cup {86400} :
        LET run == [r \in Replies(srv, "get_subscription_changes", GetSubscriptionChanges(client.me, timestamp, SendErr).wire) |->
                       GetSubscriptionChanges(client.me, timestamp, r)]
        IN  Invoke("get_subscription_changes", <<timestamp>>, run)

CallRetrieveSuggestedPodcasts ==
    \E max_results \in {0, 1, 255} :
        \/ /\ IsAuth
           /\ LET run == [r \in Replies(srv, "retrieve_suggested_podcasts", RetrieveSuggestedPodcasts(client.me, max_results, SendErr).wire) |->
                             RetrieveSuggestedPodcasts(client.me, max_results, r)]
              IN  Invoke("retrieve_suggested_podcasts", <<max_results>>, run)
        \/ /\ IsDev
           /\ LET run == [r \in Replies(srv, "retrieve_suggested_podcasts", DevRetrieveSuggestedPodcasts(client.me, max_results, SendErr).wire) |->
                             DevRetrieveSuggestedPodcasts(client.me, max_results, r)]
              IN  Invoke("retrieve_suggested_podcasts", <<max_results>>, run)

Next ==
    \/ CallListDevices
    \/ CallUpdateDeviceData
    \/ CallGetDeviceUpdates
    \/ CallGetAllSubscriptions
    \/ CallGetSubscriptionsOfDevice
    \/ CallUploadSubscriptionsOfDevice
    \/ CallUploadSubscriptionChanges
    \/ CallGetSubscriptionChanges
    \/ CallRetrieveSuggestedPodcasts

Spec == Init /\ [][Next]_vars

\* what operation op with arguments args makes of the reply r on client c
Alone(c, op, args, r) ==
    CASE op = "list_devices" ->
            IF c.kind = "DeviceClient" THEN DevListDevices(c.me, r) ELSE ListDevices(c.me, r)
      [] op = "update_device_data" -> UpdateDeviceData(c.me, args[1], args[2], r)
      [] op = "get_device_updates" -> GetDeviceUpdates(c.me, args[1], args[2], r)
      [] op = "get_all_subscriptions" ->
            IF c.kind = "DeviceClient" THEN DevGetAllSubscriptions(c.me, r)
            ELSE GetAllSubscriptions(c.me, r)
      [] op = "get_subscriptions_of_device" -> GetSubscriptionsOfDevice(c.me, r)
      [] op = "upload_subscriptions_of_device" ->
            UploadSubscriptionsOfDevice(c.me, args[1], r)
      [] op = "upload_subscription_changes" ->
            UploadSubscriptionChanges(c.me, args[1], args[2], r)
      [] op = "get_subscription_changes" -> GetSubscriptionChanges(c.me, args[1], r)
      [] op = "retrieve_suggested_podcasts" ->
            IF c.kind = "DeviceClient" THEN DevRetrieveSuggestedPodcasts(c.me, args[1], r)
            ELSE RetrieveSuggestedPodcasts(c.me, args[1], r)

(***************************************************************************)
(* SpecExec: a client is constructed, then its request methods get,        *)
(* get_with_query, put and post are called as the operations of the crate  *)
(* call them, and the operations that do not name a device are invoked.    *)
(***************************************************************************)
\* the urls, query pairs and bodies the methods are called with
ExecUrls == {Lit("https://gpodder.net/api/2/devices/alice.json"),
             Lit("https://gpodder.net/suggestions/3.json")}
ExecPairs == {<<Lit("since"), Lit("0")>>, <<Lit("include_actions"), Lit("true")>>}
ExecQueries == SeqsUpTo(ExecPairs, MaxList)
ExecBodies == {<<>>, [add |-> << <<97>> >>, remove |-> <<>>]}

\* what send() may give
SendResults == {SendErr, SendOk(200, Body("empty", <<>>)), SendOk(503, NotJson)}

\* One call of a request method: the requests `wire` leave, send() gives r
\* and the method returns r.
Exec(op, args, wire) ==
    /\ \E r \in SendResults :
        /\ call' = [op |-> op, args |-> args]
        /\ net' = wire
        /\ resp' = r
        /\ result' = r
    /\ UNCHANGED <<client, srv, cmpVars>>

ExecGet ==
    \E url \in ExecUrls :
        \/ IsAuth /\ Exec("get", <<url>>, AuthGet(client.me, url))
        \/ IsDev /\ Exec("get", <<url>>, DevGet(client.me, url))

ExecGetWithQuery ==
    \E url \in ExecUrls, query_parameters \in ExecQueries :
        \/ IsAuth /\ Exec("get_with_query", <<url, query_parameters>>,
                          AuthGetWithQuery(client.me, url, query_parameters))
        \/ IsDev /\ Exec("get_with_query", <<url, query_parameters>>,
                         DevGetWithQuery(client.me, url, query_parameters))

ExecPut ==
    \E url \in ExecUrls, json \in ExecBodies :
        \/ IsAuth /\ Exec("put", <<url, json>>, AuthPut(client.me, url, json))
        \/ IsDev /\ Exec("put", <<url, json>>, DevPut(client.me, url, json))

ExecPost ==
    \E url \in ExecUrls, json \in ExecBodies :
        \/ IsAuth /\ Exec("post", <<url, json>>, AuthPost(client.me, url, json))
        \/ IsDev /\ Exec("post", <<url, json>>, DevPost(client.me, url, json))

NextExec ==
    \/ ExecGet
    \/ ExecGetWithQuery
    \/ ExecPut
    \/ ExecPost
    \/ CallListDevices
    \/ CallGetAllSubscriptions
    \/ CallRetrieveSuggestedPodcasts

SpecExec == Init /\ [][NextExec]_vars

(***************************************************************************)
(* Claims about the operations.                                            *)
(***************************************************************************)
\* the values the client was constructed with
ClientUsername ==
    IF client.kind = "DeviceClient" THEN client.me.authenticated_client.username
    ELSE client.me.username
ClientPassword ==
    IF client.kind = "DeviceClient" THEN client.me.authenticated_client.password
    ELSE client.me.password
ClientDeviceId == client.me.device_id

Invoked == call.op # "none"

\* the operations that return () and those that return a parsed value
UnitOps == {"update_device_data", "upload_subscriptions_of_device"}

\* the type each operation's signature promises
ReturnType(op) ==
    CASE op = "list_devices" -> "Vec<Device>"
      [] op = "get_device_updates" -> "DeviceUpdates"
      [] op = "get_all_subscriptions" -> "Vec<Podcast>"
      [] op = "get_subscriptions_of_device" -> "Vec<Url>"
      [] op = "upload_subscription_changes" -> "UploadSubscriptionChangesResponse"
      [] op = "get_subscription_changes" -> "GetSubscriptionChangesResponse"
      [] op = "retrieve_suggested_podcasts" -> "Vec<Suggestion>"
      [] OTHER -> "()"

\* C3: when the service answers a public operation with a non-success HTTP
\* status, the operation returns an error and never a success value.
C3_NonSuccessStatusIsError ==
    (Invoked /\ resp.ok /\ resp.status \notin 200..299) => ~result.ok

\* C4: a public operation returns its typed value or an error: a transport
\* error of the HTTP call is returned as that error, a response body that is
\* not of the expected JSON type is returned as that decoding error, and a
\* success value is the parsed body itself, never a default or empty value
\* put in place of a failure.
C4_ErrorsPropagate ==
    Invoked =>
        /\ ~resp.ok => result = Err(<<"Error", "transport">>)
        /\ (resp.ok /\ call.op \notin UnitOps /\ resp.body.shape # ReturnType(call.op))
                => result = Err(<<"Error", "decode">>)
        /\ (result.ok /\ call.op \notin UnitOps)
                => /\ resp.ok
                   /\ resp.body.shape = ReturnType(call.op)
                   /\ result.val = resp.body.val
        /\ (result.ok /\ call.op \in UnitOps) => resp.ok /\ result.val = <<>>

C4_Witness ==
    /\ call.op = "get_all_subscriptions"
    /\ resp.ok /\ resp.status = 200 /\ resp.body.shape = "unexpected"
    /\ result = Err(<<"Error", "decode">>)

\* C5 as stated: list_devices issues GET /devices/{username}.json,
\* update_device_data issues POST /devices/{username}/{device_id}.json and
\* get_device_updates issues GET /updates/{username}/{device_id}.json on
\* gpodder.net.
C5_DevicePathsAsStated ==
    /\ call.op = "list_devices" =>
        /\ net[1].verb = "GET"
        /\ net[1].url = <<"https://gpodder.net/devices/">> \o ClientUsername \o <<".json">>
    /\ call.op = "update_device_data" =>
        /\ net[1].verb = "POST"
        /\ net[1].url = <<"https://gpodder.net/devices/">> \o ClientUsername \o <<"/">>
                            \o ClientDeviceId \o <<".json">>
    /\ call.op = "get_device_updates" =>
        /\ net[1].verb = "GET"
        /\ net[1].url = <<"https://gpodder.net/updates/">> \o ClientUsername \o <<"/">>
                            \o ClientDeviceId \o <<".json">>

\* C5 (amended): on host gpodder.net the Device-module operations use the
\* paths under /api/2: list_devices issues GET /api/2/devices/{username}.json,
\* update_device_data issues POST /api/2/devices/{username}/{device_id}.json
\* and get_device_updates issues GET /api/2/updates/{username}/{device_id}.json,
\* with the username and device id the client was constructed with.
C5_DevicePaths ==
    /\ call.op = "list_devices" =>
        /\ net[1].verb = "GET"
        /\ net[1].url = <<"https://gpodder.net/api/2/devices/">> \o ClientUsername
                            \o <<".json">>
    /\ call.op = "update_device_data" =>
        /\ net[1].verb = "POST"
        /\ net[1].url = <<"https://gpodder.net/api/2/devices/">> \o ClientUsername
                            \o <<"/">> \o ClientDeviceId \o <<".json">>
    /\ call.op = "get_device_updates" =>
        /\ net[1].verb = "GET"
        /\ net[1].url = <<"https://gpodder.net/api/2/updates/">> \o ClientUsername
                            \o <<"/">> \o ClientDeviceId \o <<".json">>

C5_Witness ==
    /\ call.op = "get_device_updates"
    /\ ClientUsername = <<"bob">> /\ ClientDeviceId = <<"dev2">>
    /\ net[1].url = <<"https://gpodder.net/api/2/updates/", "bob", "/", "dev2", ".json">>

\* C6: on host gpodder.net, get_all_subscriptions issues GET
\* /subscriptions/{username}.json; get_subscriptions_of_device issues GET and
\* upload_subscriptions_of_device issues PUT on
\* /subscriptions/{username}/{device_id}.json; upload_subscription_changes
\* issues POST and get_subscription_changes issues GET on
\* /api/2/subscriptions/{username}/{device_id}.json.
C6_SubscriptionPaths ==
    /\ call.op = "get_all_subscriptions" =>
        /\ net[1].verb = "GET"
        /\ net[1].url = <<"https://gpodder.net/subscriptions/">> \o ClientUsername
                            \o <<".json">>
    /\ call.op \in {"get_subscriptions_of_device", "upload_subscriptions_of_device"} =>
        /\ net[1].verb = (IF call.op = "get_subscriptions_of_device" THEN "GET" ELSE "PUT")
        /\ net[1].url = <<"https://gpodder.net/subscriptions/">> \o ClientUsername
                            \o <<"/">> \o ClientDeviceId \o <<".json">>
    /\ call.op \in {"upload_subscription_changes", "get_subscription_changes"} =>
        /\ net[1].verb = (IF call.op = "get_subscription_changes" THEN "GET" ELSE "POST")
        /\ net[1].url = <<"https://gpodder.net/api/2/subscriptions/">> \o ClientUsername
                            \o <<"/">> \o ClientDeviceId \o <<".json">>

C6_Witness ==
    /\ call.op = "upload_subscription_changes"
    /\ net[1].verb = "POST"
    /\ net[1].url = <<"https://gpodder.net/api/2/subscriptions/", "alice", "/", "dev1", ".json">>

\* C7: the request body of update_device_data holds exactly the fields that
\* were supplied, with the supplied values: no `type` key when only caption
\* is set, no `caption` key when only device_type is set, the empty object
\* when neither is set, and never a null.
C7_DeviceDataOnlySuppliedFields ==
    call.op = "update_device_data" =>
        LET body == net[1].json[1]
            caption == call.args[1]
            device_type == call.args[2]
        IN  /\ net[1].json # <<>>
            /\ ("caption" \in DOMAIN body) <=> (caption # <<>>)
            /\ ("type" \in DOMAIN body) <=> (device_type # <<>>)
            /\ DOMAIN body \subseteq {"caption", "type"}
            /\ \A k \in DOMAIN body : body[k] # <<"null">>
            /\ caption # <<>> => body["caption"] = <<"string", caption[1]>>
            /\ device_type = <<"Mobile">> => body["type"] = <<"string", "mobile">>

C7_Witness ==
    /\ call.op = "update_device_data"
    /\ call.args = << <<"My Phone">>, <<>> >>
    /\ DOMAIN net[1].json[1] = {"caption"}

\* C8: every request any operation sends carries Basic authentication made
\* of the user name and the password the client was constructed with, and
\* the user agent "<name>/<version>".
C8_AuthAndUserAgentOnEveryRequest ==
    \A i \in DOMAIN net :
        /\ net[i].basic_auth = << <<ClientUsername, <<ClientPassword>> >> >>
        /\ net[i].user_agent = << <<"CARGO_PKG_NAME", "/", "CARGO_PKG_VERSION">> >>

C8_Witness ==
    /\ call.op = "upload_subscriptions_of_device"
    /\ net # <<>> /\ net[1].verb = "PUT"
    /\ net[1].basic_auth = << << <<"bob">>, << <<"wrong">> >> >> >>

\* C9: each invocation of a public operation sends exactly one request,
\* whether it succeeds or fails.
C9_OneRequestPerInvocation == Invoked => Len(net) = 1

C9_Witness ==
    /\ call.op = "upload_subscriptions_of_device"
    /\ ~resp.ok /\ ~result.ok
    /\ Len(net) = 1

\* C10: when upload_subscriptions_of_device(L) has returned Ok and the next
\* operation on the device is a get_subscriptions_of_device() that returns
\* Ok, the urls it returns are exactly the urls of L.
C10_GetReturnsWhatWasUploaded ==
    [][(/\ call.op = "upload_subscriptions_of_device" /\ result.ok
        /\ call'.op = "get_subscriptions_of_device" /\ result'.ok)
            => Range(result'.val) = Range(call.args[1])]_vars

\* an upload_subscription_changes that returned Ok(t) is followed at once by
\* a get_subscription_changes(t) that returns Ok
UploadThenGetSince ==
    /\ call.op = "upload_subscription_changes" /\ result.ok
    /\ call'.op = "get_subscription_changes" /\ result'.ok
    /\ call'.args = <<result.val.timestamp>>

\* the list holds exactly the urls of S, each once
ListsOnce(list, S) == Range(list) = S /\ Len(list) = Cardinality(S)

Opposite(act) == IF act = "add" THEN "remove" ELSE "add"

\* the most recent invocation is an upload_subscription_changes that returned
\* Ok(t) and changed feed u to `act` at t, after an earlier upload had changed
\* u the opposite way at an earlier timestamp
FlippedAt(u, act) ==
    /\ call.op = "upload_subscription_changes" /\ result.ok
    /\ u \in Range(IF act = "add" THEN call.args[1] ELSE call.args[2])
    /\ srv.prior[u] = Opposite(act)

\* how often x occurs in the list
Occurrences(list, x) == Cardinality({i \in DOMAIN list : list[i] = x})

C13_QueryPairsInOrder ==
    /\ call.op = "get_with_query" =>
        /\ Len(net) = 1
        /\ Len(net[1].query) = Len(call.args[2])
        /\ \A i \in DOMAIN call.args[2] : net[1].query[i] = call.args[2][i]
    /\ call.op = "get" => Len(net) = 1 /\ net[1].query = <<>>

C13_Witness ==
    /\ call.op = "get_with_query"
    /\ call.args[2] = << <<<<"since">>, <<"0">>>>, <<<<"include_actions">>, <<"true">>>> >>
    /\ net[1].query[1] = <<<<"since">>, <<"0">>>>
    /\ net[1].query[2] = <<<<"include_actions">>, <<"true">>>>

\* the decimal text of the numbers of suggestions that are asked for
DecimalText(n) ==
    CASE n = 0 -> <<"0">>
      [] n = 1 -> <<"1">>
      [] n = 255 -> <<"2", "5", "5">>

\* C14: retrieve_suggested_podcasts(n) issues GET /suggestions/{n}.json with
\* the decimal text of n; when it returns Ok, the value is the sequence of
\* the response body, element for element in the same order, nothing cut,
\* moved or left out, and it holds at most n suggestions.
C14_SuggestionsAsTheServiceGaveThem ==
    call.op = "retrieve_suggested_podcasts" =>
        /\ net[1].verb = "GET"
        /\ net[1].url = <<"https://gpodder.net/suggestions/">>
                            \o DecimalText(call.args[1]) \o <<".json">>
        /\ result.ok =>
            /\ Len(result.val) = Len(resp.body.val)
            /\ \A i \in DOMAIN resp.body.val : result.val[i] = resp.body.val[i]
            /\ Len(result.val) <= call.args[1]

C14_Witness ==
    /\ call.op = "retrieve_suggested_podcasts" /\ call.args = <<255>>
    /\ net[1].url = <<"https://gpodder.net/suggestions/", "2", "5", "5", ".json">>
    /\ result.ok /\ Len(result.val) = 2
    /\ result.val[1].url = <<97>> /\ result.val[2].url = <<98>>

\* an AuthenticatedClient constructed with the user name and password of
\* the client
PlainClient == AuthenticatedClientNew(ClientUsername, ClientPassword)

\* C16: on a DeviceClient, list_devices, get_all_subscriptions and
\* retrieve_suggested_podcasts send the request and return the result that
\* an AuthenticatedClient with the same user name and password sends and
\* returns, whatever the device id; and get, get_with_query, put and post of
\* a DeviceClient send what the held AuthenticatedClient sends for the same
\* url, query parameters and body, which reach the request unchanged.
C16_DeviceClientDelegates ==
    IsDev =>
        /\ call.op = "list_devices" =>
            /\ net = ListDevices(PlainClient, resp).wire
            /\ result = ListDevices(PlainClient, resp).ret
        /\ call.op = "get_all_subscriptions" =>
            /\ net = GetAllSubscriptions(PlainClient, resp).wire
            /\ result = GetAllSubscriptions(PlainClient, resp).ret
        /\ call.op = "retrieve_suggested_podcasts" =>
            /\ net = RetrieveSuggestedPodcasts(PlainClient, call.args[1], resp).wire
            /\ result = RetrieveSuggestedPodcasts(PlainClient, call.args[1], resp).ret
        /\ call.op = "get" =>
            /\ net = AuthGet(client.me.authenticated_client, call.args[1])
            /\ net[1].url = call.args[1] /\ net[1].query = <<>>
        /\ call.op = "get_with_query" =>
            /\ net = AuthGetWithQuery(client.me.authenticated_client,
                                      call.args[1], call.args[2])
            /\ net[1].url = call.args[1] /\ net[1].query = call.args[2]
        /\ call.op = "put" =>
            /\ net = AuthPut(client.me.authenticated_client, call.args[1], call.args[2])
            /\ net[1].url = call.args[1] /\ net[1].json = <<call.args[2]>>
        /\ call.op = "post" =>
            /\ net = AuthPost(client.me.authenticated_client, call.args[1], call.args[2])
            /\ net[1].url = call.args[1] /\ net[1].json = <<call.args[2]>>
        /\ call.op \in {"get", "get_with_query", "put", "post"} => result = resp

C16_Witness ==
    /\ IsDev /\ ClientDeviceId = <<"dev2">> /\ ClientUsername = <<"alice">>
    /\ call.op = "get_all_subscriptions"
    /\ net[1].url = <<"https://gpodder.net/subscriptions/", "alice", ".json">>
    /\ result.ok /\ Len(result.val) = 1

\* C17: no operation, whether it succeeds or fails, changes the user name,
\* the password or the device id of the client; the request of an
\* invocation is the one that follows from the constructed client and the
\* arguments of that invocation alone, and invoking the same operation with
\* the same arguments again sends the same request, whatever was invoked
\* and answered before.
C17_ClientIsNeverChanged ==
    /\ [][client' = client]_vars
    /\ [](Invoked => net = Alone(client, call.op, call.args, SendErr).wire)
    /\ [][(Invoked /\ call'.op = call.op /\ call'.args = call.args) => net' = net]_vars

C17_Witness ==
    /\ call.op = "get_device_updates" /\ call.args = <<0, TRUE>>
    /\ srv.clock = 2 /\ result.ok /\ result.val.timestamp = 2
    /\ ClientUsername = <<"alice">> /\ ClientPassword = <<"secret">>
    /\ ClientDeviceId = <<"dev1">>
    /\ net[1].query[1] = <<<<"since">>, <<"0">>>>

\* the text is the decimal numeral of n: digits that stand for n, with no
\* leading zero
IsDecimalOf(text, n) ==
    /\ text # <<>>
    /\ \A i \in DOMAIN text : \E d \in 0..9 : text[i] = Digit[d + 1]
    /\ ParseDecimal(text) = n
    /\ Len(text) > 1 => text[1] # "0"

\* C20: get_subscription_changes(t) sends exactly one query parameter,
\* since = t, and get_device_updates(t, b) sends exactly two, since = t and
\* then include_actions = b, for every t (0 included) and both b: the value
\* of since is the number the caller gave, written in decimal, whatever
\* timestamps earlier answers carried.
C20_SincePassedVerbatim ==
    /\ call.op = "get_subscription_changes" =>
        /\ Len(net[1].query) = 1
        /\ net[1].query[1][1] = <<"since">>
        /\ IsDecimalOf(net[1].query[1][2], call.args[1])
    /\ call.op = "get_device_updates" =>
        /\ Len(net[1].query) = 2
        /\ net[1].query[1][1] = <<"since">>
        /\ IsDecimalOf(net[1].query[1][2], call.args[1])
        /\ net[1].query[2][1] = <<"include_actions">>
        /\ net[1].query[2][2] = (IF call.args[2] THEN <<"true">> ELSE <<"false">>)

C20_Witness ==
    /\ call.op = "get_device_updates" /\ call.args = <<86400, FALSE>>
    /\ srv.clock = 1
    /\ net[1].query = << <<<<"since">>, <<"8", "6", "4", "0", "0">>>>,
                         <<<<"include_actions">>, <<"false">>>> >>

\* the client that differs from c in the password alone
WithPassword(c, p) ==
    IF c.kind = "DeviceClient"
    THEN [kind |-> c.kind,
          me |-> DeviceClientNew(c.me.authenticated_client.username, p, c.me.device_id)]
    ELSE [kind |-> c.kind, me |-> AuthenticatedClientNew(c.me.username, p)]

\* a request without its Basic authentication
BesidesAuth(req) ==
    [verb |-> req.verb, url |-> req.url, query |-> req.query,
     user_agent |-> req.user_agent, json |-> req.json]

\* the text of the password occurs in the text
Names(text, password) == Range(text) \cap Range(password) # {}

\* the request body of operation op is written from the arguments alone and
\* holds no text of the password
BodyFreeOf(op, args, json, password) ==
    CASE op = "update_device_data" ->
            /\ json # None
            /\ \A k \in DOMAIN json[1] : json[1][k][2] \notin Range(password)
      [] op = "upload_subscriptions_of_device" -> json = Some(args[1])
      [] op = "upload_subscription_changes" ->
            json = Some([add |-> args[1], remove |-> args[2]])
      [] OTHER -> json = None

\* C21: the password reaches nothing but the Basic authentication of a
\* request: for every operation and all arguments, the client that differs
\* in the password alone sends as many requests, with the same verb, url,
\* query parameters, user agent and JSON body; and no url, query parameter
\* or body of a request holds the password.
C21_PasswordOnlyInBasicAuth ==
    Invoked =>
        /\ \A p \in Passwords :
            LET other == Alone(WithPassword(client, p), call.op, call.args, resp).wire
            IN  /\ Len(other) = Len(net)
                /\ \A i \in DOMAIN net : BesidesAuth(other[i]) = BesidesAuth(net[i])
        /\ \A i \in DOMAIN net :
            /\ ~Names(net[i].url, ClientPassword)
            /\ \A k \in DOMAIN net[i].query :
                /\ ~Names(net[i].query[k][1], ClientPassword)
                /\ ~Names(net[i].query[k][2], ClientPassword)
            /\ BodyFreeOf(call.op, call.args, net[i].json, ClientPassword)

C21_Witness ==
    /\ call.op = "update_device_data"
    /\ call.args = << <<"My Phone">>, <<"Mobile">> >>
    /\ ClientPassword = <<"wrong">>
    /\ net[1].verb = "POST"
    /\ net[1].json[1]["caption"] = <<"string", "My Phone">>
    /\ LET other == Alone(WithPassword(client, <<"secret">>), call.op, call.args, resp).wire
       IN  /\ other[1].basic_auth # net[1].basic_auth
           /\ BesidesAuth(other[1]) = BesidesAuth(net[1])

(***************************************************************************)
(* SpecConc: one client is shared by two threads; each invokes one         *)
(* operation, and the sending and the answering of the two are interleaved *)
(* in every way.  call, net, resp, result and cpc hold one value a thread. *)
(***************************************************************************)
Threads == {"t1", "t2"}

\* the invocations the threads make
ConcCalls ==
    {[op |-> "upload_subscription_changes", args |-> <<a, r>>] :
        a \in SeqsUpTo({<<97>>}, 1), r \in SeqsUpTo({<<97>>}, 1)}
    \cup {[op |-> "get_subscription_changes", args |-> <<t>>] : t \in 0..MaxClock}
    \cup {[op |-> "upload_subscriptions_of_device", args |-> <<q>>] :
            q \in SeqsUpTo(FeedUrls, 1)}
    \cup {[op |-> "get_subscriptions_of_device", args |-> <<>>],
          [op |-> "get_all_subscriptions", args |-> <<>>]}

InitConc ==
    /\ \E u \in Usernames :
            client = [kind |-> "DeviceClient",
                      me |-> DeviceClientNew(u, Lit("secret"), Lit("dev1"))]
    /\ \E subs \in {{}, {<<97>>}} :
            srv = [subs |-> subs, clock |-> 0, changed |-> [u \in FeedUrls |-> NoChange],
                   prior |-> [u \in FeedUrls |-> "none"]]
    /\ call = [t \in Threads |-> [op |-> "none", args |-> <<>>]]
    /\ net = [t \in Threads |-> <<>>]
    /\ resp = [t \in Threads |-> SendErr]
    /\ result = [t \in Threads |-> Ok("none")]
    /\ cpc = [t \in Threads |-> "idle"]
    /\ pair = [kind |-> "none"]
    /\ out = NoOut

\* thread t enters an operation: the request is built from the client and
\* the arguments and leaves through send()
Begin(t) ==
    /\ cpc[t] = "idle"
    /\ \E c \in ConcCalls :
        /\ call' = [call EXCEPT ![t] = c]
        /\ net' = [net EXCEPT ![t] = Alone(client, c.op, c.args, SendErr).wire]
    /\ cpc' = [cpc EXCEPT ![t] = "sent"]
    /\ UNCHANGED <<client, srv, resp, result, pair, out>>

\* send() returns in thread t, and the operation returns
Complete(t) ==
    /\ cpc[t] = "sent"
    /\ \E r \in Replies(srv, call[t].op, net[t]) :
        /\ resp' = [resp EXCEPT ![t] = r]
        /\ result' = [result EXCEPT ![t] = Alone(client, call[t].op, call[t].args, r).ret]
        /\ srv' = ServiceAfter(srv, call[t].op, net[t], r)
    /\ cpc' = [cpc EXCEPT ![t] = "done"]
    /\ UNCHANGED <<client, call, net, pair, out>>

NextConc ==
    \/ \E t \in Threads : Begin(t)
    \/ \E t \in Threads : Complete(t)

SpecConc == InitConc /\ [][NextConc]_vars

\* what thread t holds: its invocation, its request, its answer, its result
\* and how far it is
Held(t) == <<call[t], net[t], resp[t], result[t], cpc[t]>>

\* C18: when two threads run operations on one shared client, then in every
\* interleaving the request of each thread is the request its operation
\* sends when it runs alone (url, query, body, credentials and user agent
\* of the shared client), the result of each thread is what its operation
\* makes of the response to its own request, and a step of one thread
\* leaves the request and the result of the other as they were.
C18_ThreadsDoNotInterfere ==
    /\ [](\A t \in Threads :
            /\ cpc[t] \in {"sent", "done"} =>
                /\ net[t] = Alone(client, call[t].op, call[t].args, SendErr).wire
                /\ Len(net[t]) = 1
                /\ net[t][1].basic_auth = << <<ClientUsername, <<ClientPassword>> >> >>
                /\ net[t][1].user_agent = << <<"CARGO_PKG_NAME", "/", "CARGO_PKG_VERSION">> >>
            /\ cpc[t] = "done" =>
                /\ result[t] = Alone(client, call[t].op, call[t].args, resp[t]).ret
                /\ ~resp[t].ok => result[t] = Err(<<"Error", "transport">>)
                /\ (resp[t].ok /\ call[t].op \notin UnitOps) =>
                        result[t] = IF resp[t].body.shape = ReturnType(call[t].op)
                                    THEN Ok(resp[t].body.val)
                                    ELSE Err(<<"Error", "decode">>))
    /\ [][\A t \in Threads :
            /\ cpc'[t] = cpc[t] => Held(t)' = Held(t)
            /\ cpc[t] = "sent" => call'[t] = call[t] /\ net'[t] = net[t]]_vars

C18_Witness ==
    /\ cpc["t1"] = "done" /\ cpc["t2"] = "done"
    /\ call["t1"].op = "upload_subscription_changes" /\ result["t1"].ok
    /\ result["t1"].val.timestamp = 2
    /\ call["t2"].op = "upload_subscriptions_of_device" /\ resp["t2"].status = 200
    /\ srv.subs = {<<97>>}
    /\ call["t1"].args = << << <<97>> >>, <<>> >>
    /\ call["t2"].args = << <<>> >>

(***************************************************************************)
(* SpecCmp: draw two records of one type, then compare and hash them as    *)
(* the unit tests of device.rs, subscription.rs and suggestion.rs do.      *)
(***************************************************************************)
\* the client part of the state is not touched by SpecCmp
IdleClient ==
    /\ client = [kind |-> "none", me |-> <<>>]
    /\ srv = [subs |-> {}, clock |-> 0, changed |-> <<>>, prior |-> <<>>]
    /\ call = [op |-> "none", args |-> <<>>]
    /\ net = <<>>
    /\ resp = SendErr
    /\ result = Ok("none")

InitCmp ==
    /\ \/ \E a \in Devices, b \in Devices : pair = [kind |-> "Device", a |-> a, b |-> b]
       \/ \E a \in Podcasts, b \in Podcasts : pair = [kind |-> "Podcast", a |-> a, b |-> b]
       \/ \E a \in Suggestions, b \in Suggestions :
            pair = [kind |-> "Suggestion", a |-> a, b |-> b]
    /\ out = NoOut
    /\ cpc = "input"
    /\ IdleClient

CompareDevices ==
    /\ cpc = "input" /\ pair.kind = "Device"
    /\ out' = [eq |-> DeviceEq(pair.a, pair.b),
               cmp |-> DeviceCmp(pair.a, pair.b),
               pcmp |-> DevicePartialCmp(pair.a, pair.b),
               ha |-> Finish(DeviceHash(pair.a, <<>>)),
               hb |-> Finish(DeviceHash(pair.b, <<>>))]
    /\ cpc' = "done"
    /\ UNCHANGED <<pair, cliVars>>

ComparePodcasts ==
    /\ cpc = "input" /\ pair.kind = "Podcast"
    /\ out' = [eq |-> PodcastEq(pair.a, pair.b),
               cmp |-> PodcastCmp(pair.a, pair.b),
               pcmp |-> PodcastPartialCmp(pair.a, pair.b),
               ha |-> Finish(PodcastHash(pair.a, <<>>)),
               hb |-> Finish(PodcastHash(pair.b, <<>>))]
    /\ cpc' = "done"
    /\ UNCHANGED <<pair, cliVars>>

CompareSuggestions ==
    /\ cpc = "input" /\ pair.kind = "Suggestion"
    /\ out' = [eq |-> SuggestionEq(pair.a, pair.b),
               cmp |-> SuggestionCmp(pair.a, pair.b),
               pcmp |-> SuggestionPartialCmp(pair.a, pair.b),
               ha |-> Finish(SuggestionHash(pair.a, <<>>)),
               hb |-> Finish(SuggestionHash(pair.b, <<>>))]
    /\ cpc' = "done"
    /\ UNCHANGED <<pair, cliVars>>

NextCmp == CompareDevices \/ ComparePodcasts \/ CompareSuggestions

SpecCmp == InitCmp /\ [][NextCmp]_vars

(***************************************************************************)
(* SpecFmt: draw two records of one type, then either write each as JSON   *)
(* and read it back, or format each with Display.                          *)
(***************************************************************************)
RoundTripDevices ==
    /\ cpc = "input" /\ pair.kind = "Device"
    /\ out' = [ja |-> SerializeDevice(pair.a),
               a |-> DeserializeDevice(SerializeDevice(pair.a)),
               jb |-> SerializeDevice(pair.b),
               b |-> DeserializeDevice(SerializeDevice(pair.b))]
    /\ cpc' = "parsed"
    /\ UNCHANGED <<pair, cliVars>>

RoundTripPodcasts ==
    /\ cpc = "input" /\ pair.kind = "Podcast"
    /\ out' = [ja |-> SerializePodcast(pair.a),
               a |-> DeserializePodcast(SerializePodcast(pair.a)),
               jb |-> SerializePodcast(pair.b),
               b |-> DeserializePodcast(SerializePodcast(pair.b))]
    /\ cpc' = "parsed"
    /\ UNCHANGED <<pair, cliVars>>

RoundTripSuggestions ==
    /\ cpc = "input" /\ pair.kind = "Suggestion"
    /\ out' = [ja |-> SerializeSuggestion(pair.a),
               a |-> DeserializeSuggestion(SerializeSuggestion(pair.a)),
               jb |-> SerializeSuggestion(pair.b),
               b |-> DeserializeSuggestion(SerializeSuggestion(pair.b))]
    /\ cpc' = "parsed"
    /\ UNCHANGED <<pair, cliVars>>

DisplayDevices ==
    /\ cpc = "input" /\ pair.kind = "Device"
    /\ out' = [a |-> DisplayDevice(pair.a), b |-> DisplayDevice(pair.b)]
    /\ cpc' = "shown"
    /\ UNCHANGED <<pair, cliVars>>

DisplayPodcasts ==
    /\ cpc = "input" /\ pair.kind = "Podcast"
    /\ out' = [a |-> DisplayPodcast(pair.a), b |-> DisplayPodcast(pair.b)]
    /\ cpc' = "shown"
    /\ UNCHANGED <<pair, cliVars>>

DisplaySuggestions ==
    /\ cpc = "input" /\ pair.kind = "Suggestion"
    /\ out' = [a |-> DisplaySuggestion(pair.a), b |-> DisplaySuggestion(pair.b)]
    /\ cpc' = "shown"
    /\ UNCHANGED <<pair, cliVars>>

NextFmt ==
    \/ RoundTripDevices
    \/ RoundTripPodcasts
    \/ RoundTripSuggestions
    \/ DisplayDevices
    \/ DisplayPodcasts
    \/ DisplaySuggestions

SpecFmt == InitCmp /\ [][NextFmt]_vars

(***************************************************************************)
(* Claims about the natural key.                                           *)
(***************************************************************************)
\* the natural key of the record: Device.id, Podcast.url, Suggestion.url
KeyOf(kind, r) == IF kind = "Device" THEN r.id ELSE r.url

\* the lexical order of two byte strings, stated without recursion: the
\* first position where they differ decides, a proper prefix is smaller
LexLess(s, t) ==
    \E i \in 1..(Len(t)) :
        /\ \A j \in 1..(i - 1) : j <= Len(s) /\ s[j] = t[j]
        /\ \/ i = Len(s) + 1
           \/ i <= Len(s) /\ s[i] < t[i]

LexOrder(s, t) ==
    IF s = t THEN "Equal" ELSE IF LexLess(s, t) THEN "Less" ELSE "Greater"

\* the two records differ in every field besides the key
OthersDiffer ==
    IF pair.kind = "Device"
    THEN /\ pair.a.caption # pair.b.caption
         /\ pair.a.device_type # pair.b.device_type
         /\ pair.a.subscriptions # pair.b.subscriptions
    ELSE /\ pair.a.title # pair.b.title
         /\ pair.a.description # pair.b.description
         /\ pair.a.subscribers # pair.b.subscribers
         /\ pair.a.subscribers_last_week # pair.b.subscribers_last_week
         /\ pair.a.logo_url # pair.b.logo_url
         /\ pair.a.mygpo_link # pair.b.mygpo_link
         /\ pair.a.website # pair.b.website

\* C1: two Device records with the same id, or two Podcast or Suggestion
\* records with the same feed url, compare equal, order as Equal under cmp
\* and partial_cmp, and hash to the same value, whatever their other fields.
C1_SameKeySameIdentity ==
    (cpc = "done" /\ KeyOf(pair.kind, pair.a) = KeyOf(pair.kind, pair.b)) =>
        /\ out.eq
        /\ out.cmp = "Equal"
        /\ out.pcmp = Some("Equal")
        /\ out.ha = out.hb

C1_Witness ==
    /\ cpc = "done" /\ pair.kind = "Suggestion"
    /\ pair.a.url = pair.b.url /\ OthersDiffer
    /\ out.eq /\ out.ha = out.hb

\* C2: two Device records with different ids, or two Podcast or Suggestion
\* records with different feed urls, are not equal, and cmp / partial_cmp
\* give the lexical order of the two keys, never Equal, whatever the other
\* fields are.
C2_DifferentKeyLexicalOrder ==
    (cpc = "done" /\ KeyOf(pair.kind, pair.a) # KeyOf(pair.kind, pair.b)) =>
        /\ ~out.eq
        /\ out.cmp = LexOrder(KeyOf(pair.kind, pair.a), KeyOf(pair.kind, pair.b))
        /\ out.cmp # "Equal"
        /\ out.pcmp = Some(out.cmp)

C2_Witness ==
    /\ cpc = "done" /\ pair.kind = "Device"
    /\ pair.a.id = <<97>> /\ pair.b.id = <<97, 97>>
    /\ pair.a.caption = pair.b.caption
    /\ ~out.eq /\ out.cmp = "Less"

(***************************************************************************)
(* Claims about the wire form and the text form of the records.            *)
(***************************************************************************)
\* the fields of each record type
FieldsOf(kind) ==
    CASE kind = "Device" -> {"id", "caption", "device_type", "subscriptions"}
      [] kind = "Podcast" ->
            {"url", "title", "author", "description", "subscribers",
             "subscribers_last_week", "logo_url", "scaled_logo_url", "website",
             "mygpo_link"}
      [] kind = "Suggestion" ->
            {"website", "mygpo_link", "description", "subscribers", "title", "url",
             "subscribers_last_week", "logo_url"}

\* the record read back has the fields of the original, each with its value
SameOnEveryField(kind, back, orig) ==
    /\ back.ok
    /\ DOMAIN back.val = FieldsOf(kind)
    /\ \A f \in FieldsOf(kind) : back.val[f] = orig[f]

\* C15: a Device, Podcast or Suggestion record that is serialized to JSON
\* and deserialized again comes back equal to the original on every field,
\* the absent optional fields and the device type included, not only on
\* the natural key.
C15_JsonRoundTrip ==
    cpc = "parsed" =>
        /\ SameOnEveryField(pair.kind, out.a, pair.a)
        /\ SameOnEveryField(pair.kind, out.b, pair.b)

C15_Witness ==
    /\ cpc = "parsed" /\ pair.kind = "Podcast"
    /\ pair.a.author = <<>> /\ pair.a.logo_url = <<>>
    /\ out.ja["author"] = <<"null">>
    /\ out.a.ok /\ out.a.val.author = <<>> /\ out.a.val.logo_url = <<>>
    /\ out.a.val.subscribers = 571

\* the two records agree on the fields Display reads
SameShownFields ==
    IF pair.kind = "Device"
    THEN /\ pair.a.device_type = pair.b.device_type
         /\ pair.a.caption = pair.b.caption
         /\ pair.a.id = pair.b.id
    ELSE /\ pair.a.title = pair.b.title
         /\ pair.a.description = pair.b.description
         /\ pair.a.url = pair.b.url

\* C19: Display writes a Device as "<variant name of the type> <caption>
\* (id=<id>)" (type Mobile, caption "My Phone", id "abcdef" give
\* "Mobile My Phone (id=abcdef)") and a Podcast or Suggestion as
\* "<title>: <description> <<url>>"; two records with the same values of
\* those fields give the same text.
C19_DisplayTemplate ==
    /\ DisplayDevice([id |-> "abcdef", caption |-> "My Phone",
                      device_type |-> "Mobile", subscriptions |-> 5])
            = <<"Mobile", " ", "My Phone", " (id=", "abcdef", ")">>
    /\ cpc = "shown" =>
        /\ pair.kind = "Device" =>
                out.a = <<pair.a.device_type, " ", pair.a.caption, " (id=", pair.a.id, ")">>
        /\ pair.kind \in {"Podcast", "Suggestion"} =>
                out.a = <<pair.a.title, ": ", pair.a.description, " <", pair.a.url, ">">>
        /\ SameShownFields => out.a = out.b

C19_Witness ==
    /\ cpc = "shown" /\ pair.kind = "Device"
    /\ pair.a.id = <<97, 98>> /\ pair.a.device_type = "Laptop"
    /\ pair.a.subscriptions # pair.b.subscriptions /\ SameShownFields
    /\ out.a = <<"Laptop", " ", "gPodder on my Lappy", " (id=", <<97, 98>>, ")">>
    /\ out.b = out.a

====
